---- MODULE Spec2Model ----
(***************************************************************************)
(* The CAN log decode loop of can_ui_tool.py.                              *)
(*                                                                         *)
(* Text is modelled as a tuple of one-character strings, so that slicing,  *)
(* splitting, lower-casing, substring tests, hex decoding and integer      *)
(* parsing are computed as Python computes them.  A dict is a function     *)
(* from field names to values; the empty dict is << >>.  The schema sheets *)
(* are functions from index values to the cell of the column that is read. *)
(* An exception is modelled by the outcome it has at the except clause     *)
(* that catches it.                                                        *)
(***************************************************************************)
EXTENDS Integers, Sequences, FiniteSets, TLC

VARIABLES machine, lines, allDicts, warnings, linedict, pc

vars == <<machine, lines, allDicts, warnings, linedict, pc>>

(* ------------------------------ constants ------------------------------ *)

CARDING == 1
DF == 2
FLYER == 3

machine_map == ("CARDING" :> CARDING) @@ ("DF" :> DF) @@ ("FLYER" :> FLYER)

\* Longest log that is explored.
MaxLines == 2

\* Number of payload bytes beyond the 20 of the Flyer layout that are explored.
MaxExtra == 1

(* ------------------------------ text ----------------------------------- *)

Upper == <<"A","B","C","D","E","F","G","H","I","J","K","L","M","N","O","P","Q","R","S","T",
      "U","V","W","X","Y","Z">>

Lower == <<"a","b","c","d","e","f","g","h","i","j","k","l","m","n","o","p","q","r","s","t",
      "u","v","w","x","y","z">>

Digits == <<"0","1","2","3","4","5","6","7","8","9">>

\* Whitespace that can occur inside one element of splitlines().
Whitespace == {" ", "\t"}

InSeq(c, s) == \E i \in 1..Len(s) : s[i] = c

IndexOf(c, s) == CHOOSE i \in 1..Len(s) : s[i] = c

\* Python index normalisation of a slice bound i for a sequence of length n.
Clamp(i, n) == IF i < 0 THEN (IF i + n < 0 THEN 0 ELSE i + n)
               ELSE (IF i > n THEN n ELSE i)

\* s[a:b]
Slice(s, a, b) == SubSeq(s, Clamp(a, Len(s)) + 1, Clamp(b, Len(s)))

\* s[a:]
SliceFrom(s, a) == SubSeq(s, Clamp(a, Len(s)) + 1, Len(s))

\* s[:b]
SliceTo(s, b) == SubSeq(s, 1, Clamp(b, Len(s)))

\* s.split(" "): every single space separates, empty tokens are kept.
RECURSIVE split(_)
split(s) ==
  IF ~InSeq(" ", s) THEN <<s>>
  ELSE LET i == CHOOSE k \in 1..Len(s) :
                  s[k] = " " /\ \A j \in 1..(k - 1) : s[j] # " "
       IN <<SubSeq(s, 1, i - 1)>> \o split(SubSeq(s, i + 1, Len(s)))

\* s.lower()
lower(s) == [i \in 1..Len(s) |->
               IF InSeq(s[i], Upper) THEN Lower[IndexOf(s[i], Upper)] ELSE s[i]]

\* sub in s
Contains(sub, s) ==
  \E i \in 0..(Len(s) - Len(sub)) : SubSeq(s, i + 1, i + Len(sub)) = sub

IsHex(c) == InSeq(c, Digits) \/ InSeq(c, SubSeq(Upper, 1, 6))
            \/ InSeq(c, SubSeq(Lower, 1, 6))

HexVal(c) == IF InSeq(c, Digits) THEN IndexOf(c, Digits) - 1
             ELSE IF InSeq(c, Upper) THEN 9 + IndexOf(c, Upper)
             ELSE 9 + IndexOf(c, Lower)

\* bytes.fromhex(s) from position i: whitespace is skipped between bytes,
\* each byte is two hex digits; ok = FALSE is the ValueError.
RECURSIVE fromhexAt(_, _)
fromhexAt(s, i) ==
  IF i > Len(s) THEN [ok |-> TRUE, bytes |-> << >>]
  ELSE IF s[i] \in Whitespace THEN fromhexAt(s, i + 1)
  ELSE IF i = Len(s) \/ ~IsHex(s[i]) \/ ~IsHex(s[i + 1])
       THEN [ok |-> FALSE, bytes |-> << >>]
  ELSE LET rest == fromhexAt(s, i + 2)
       IN IF rest.ok
          THEN [ok |-> TRUE,
                bytes |-> <<16 * HexVal(s[i]) + HexVal(s[i + 1])>> \o rest.bytes]
          ELSE rest

fromhex(s) == fromhexAt(s, 1)

RECURSIVE lstrip(_)
lstrip(s) == IF s # << >> /\ s[1] \in Whitespace THEN lstrip(Tail(s)) ELSE s

RECURSIVE rstrip(_)
rstrip(s) == IF s # << >> /\ s[Len(s)] \in Whitespace
             THEN rstrip(SubSeq(s, 1, Len(s) - 1)) ELSE s

RECURSIVE DigitsValue(_)
DigitsValue(s) ==
  IF s = << >> THEN 0
  ELSE IF s[Len(s)] = "_" THEN DigitsValue(SubSeq(s, 1, Len(s) - 1))
  ELSE 10 * DigitsValue(SubSeq(s, 1, Len(s) - 1)) + (IndexOf(s[Len(s)], Digits) - 1)

\* int(s): surrounding whitespace, an optional sign, decimal digits with
\* single underscores between digits; ok = FALSE is the ValueError.
int(s) ==
  LET t == rstrip(lstrip(s))
      signed == t # << >> /\ t[1] \in {"+", "-"}
      body == IF signed THEN Tail(t) ELSE t
      wellFormed ==
        /\ body # << >>
        /\ \A i \in 1..Len(body) : InSeq(body[i], Digits) \/ body[i] = "_"
        /\ body[1] # "_"
        /\ body[Len(body)] # "_"
        /\ \A i \in 1..(Len(body) - 1) : ~(body[i] = "_" /\ body[i + 1] = "_")
  IN IF ~wellFormed THEN [ok |-> FALSE, value |-> 0]
     ELSE [ok |-> TRUE,
           value |-> IF signed /\ t[1] = "-" THEN 0 - DigitsValue(body)
                     ELSE DigitsValue(body)]

(* ------------------------------ dicts ---------------------------------- *)

\* d.update(e)
Update(d, e) == [k \in (DOMAIN d) \cup (DOMAIN e) |->
                   IF k \in DOMAIN e THEN e[k] ELSE d[k]]

\* d.get(k, default)
Get(d, k, default) == IF k \in DOMAIN d THEN d[k] ELSE default

(* ------------------------------ schema --------------------------------- *)

RightMotor == <<"R","i","g","h","t"," ","M","o","t","o","r">>

Controller == <<"C","o","n","t","r","o","l","l","e","r">>

LeftSensor == <<"l","e","f","t","_","s","e","n","s","o","r">>

\* Sheet "FunctionID", index column 0, column msgType.
functionIDs ==
  (<<"0","1">> :> "Telemetry") @@ (<<"0","2">> :> "Operation") @@ (<<"0","3">> :> "Error")

\* Sheet "Carding_IDs", index column 0, column name.
CardingAddressIDs == (<<"0","2">> :> Controller) @@ (<<"0","3">> :> <<"C","y","l","i","n","d","e","r">>)

\* Sheet "DF_IDs", index column 0, column name.
DFAddressIDs == (<<"0","2">> :> Controller) @@ (<<"0","3">> :> <<"F","r","o","n","t"," ","R","o","l","l","e","r">>)

\* Sheet "FF_IDs", index column 0, column name.
FlyerAddressIDs ==
  (<<"0","2">> :> Controller) @@ (<<"0","3">> :> RightMotor) @@ (<<"0","4">> :> LeftSensor)

\* Sheet "Operation", index column 0, column msgType.
Operations == (<<"0","A">> :> "Start") @@ (<<"0","B">> :> "Stop")

\* Sheet "Error", index column 2 (integers), column msgType.
Errors == (5 :> "OverCurrent") @@ (12 :> "OverTemperature")

(* ------------------------------ payload -------------------------------- *)

\* x << k
Shl(x, k) == x * (2 ^ k)

\* x | y
RECURSIVE BitOr(_, _)
BitOr(x, y) ==
  IF x = 0 THEN y
  ELSE IF y = 0 THEN x
  ELSE (IF x % 2 = 1 \/ y % 2 = 1 THEN 1 ELSE 0) + 2 * BitOr(x \div 2, y \div 2)

\* Integer division in place of the float division.
Div100Floor(x) == [int |-> x \div 100, frac100 |-> 0]

\* x / 100.0 for an integer x >= 0, kept as an exact two-place decimal.
Div100(x) == [int |-> x \div 100, frac100 |-> x % 100]

\* The two bytes taken low byte first.
WordSwapped(data_bytes, i, j) == BitOr(Shl(data_bytes[j + 1], 8), data_bytes[i + 1])

\* (data_bytes[i] << 8) | data_bytes[j], indices counted from 0.
Word(data_bytes, i, j) == BitOr(Shl(data_bytes[i + 1], 8), data_bytes[j + 1])

\* data_bytes[i], index counted from 0.
Byte(data_bytes, i) == data_bytes[i + 1]

\* The dict literal of the Flyer payload; needs data_bytes[0..19].
FlyerSignals(data_bytes) ==
  [targetPosition     |-> Div100(Word(data_bytes, 0, 1)),
   presentPosition    |-> Div100(Word(data_bytes, 2, 3)),
   presentRPM         |-> Word(data_bytes, 4, 5),
   appliedDuty        |-> Word(data_bytes, 6, 7),
   FETtemp            |-> Byte(data_bytes, 8),
   MOTtemp            |-> Byte(data_bytes, 9),
   busCurrentADC      |-> Word(data_bytes, 10, 11),
   busVoltageADC      |-> Word(data_bytes, 12, 13),
   liftDirection      |-> Byte(data_bytes, 14),
   GBPresentPosition  |-> Div100(Word(data_bytes, 15, 16)),
   encPresentPosition |-> Div100(Word(data_bytes, 17, 18)),
   usingPosition      |-> Byte(data_bytes, 19)]

\* "left" tested before "right".
LiftSideLeftFirst(d) ==
  LET src == lower(Get(d, "source", << >>))
      dst == lower(Get(d, "dst", << >>))
  IN IF Contains(<<"l","e","f","t">>, src) \/ Contains(<<"l","e","f","t">>, dst) THEN "Left Lift"
     ELSE IF Contains(<<"r","i","g","h","t">>, src) \/ Contains(<<"r","i","g","h","t">>, dst) THEN "Right Lift"
     ELSE "Unknown Lift"

\* The lift side chosen from the source and destination names of a dict.
LiftSide(d) ==
  LET src == lower(Get(d, "source", << >>))
      dst == lower(Get(d, "dst", << >>))
  IN IF Contains(<<"r","i","g","h","t">>, src) \/ Contains(<<"r","i","g","h","t">>, dst) THEN "Right Lift"
     ELSE IF Contains(<<"l","e","f","t">>, src) \/ Contains(<<"l","e","f","t">>, dst) THEN "Left Lift"
     ELSE "Unknown Lift"

\* The signals stored one assignment at a time: a short byte string leaves
\* the ones stored before the IndexError.
FlyerDecodePartial(d, hexData) ==
  LET fh == fromhex(hexData)
  IN IF ~fh.ok
     THEN [linedict |-> d,
           warns |-> <<[text |-> "Flyer decoding error", exc |-> "ValueError"]>>]
     ELSE LET SignalLastByte ==
                [targetPosition |-> 1, presentPosition |-> 3, presentRPM |-> 5,
                 appliedDuty |-> 7, FETtemp |-> 8, MOTtemp |-> 9,
                 busCurrentADC |-> 11, busVoltageADC |-> 13, liftDirection |-> 14,
                 GBPresentPosition |-> 16, encPresentPosition |-> 18,
                 usingPosition |-> 19]
              padded == fh.bytes \o [i \in 1..20 |-> 0]
              all == FlyerSignals(padded)
              stored == {f \in DOMAIN all : SignalLastByte[f] < Len(fh.bytes)}
              withSignals == Update(d, [f \in stored |-> all[f]])
          IN IF Len(fh.bytes) < 20
             THEN [linedict |-> withSignals,
                   warns |-> <<[text |-> "Flyer decoding error", exc |-> "IndexError"]>>]
             ELSE [linedict |-> Update(withSignals,
                                       [LiftSide |-> LiftSide(withSignals)]),
                   warns |-> << >>]

\* The body of "if machine == FLYER and len(hexData) >= 40" with its
\* try/except: the dict afterwards and the warnings it gave.
FlyerDecode(d, hexData) ==
  LET fh == fromhex(hexData)
  IN IF ~fh.ok
     THEN [linedict |-> d,
           warns |-> <<[text |-> "Flyer decoding error", exc |-> "ValueError"]>>]
     ELSE IF Len(fh.bytes) < 20
     THEN [linedict |-> d,
           warns |-> <<[text |-> "Flyer decoding error", exc |-> "IndexError"]>>]
     ELSE LET withSignals == Update(d, FlyerSignals(fh.bytes))
          IN [linedict |-> Update(withSignals,
                                  [LiftSide |-> LiftSide(withSignals)]),
              warns |-> << >>]

\* The length test without the machine test.
FlyerGateAnyMachine(m, hexData) == Len(hexData) >= 40

\* machine == FLYER and len(hexData) >= 40
FlyerGate(m, hexData) == m = FLYER /\ Len(hexData) >= 40

(* ------------------------------ one line -------------------------------- *)

\* An exception that reaches the outer except: nothing is appended.
Raise(exc, d) ==
  [appended |-> FALSE, linedict |-> d,
   warns |-> <<[text |-> "Line parsing error", exc |-> exc]>>]

machineIDsOf(m) ==
  ((CARDING :> CardingAddressIDs) @@ (DF :> DFAddressIDs) @@ (FLYER :> FlyerAddressIDs))[m]

\* The msgType branch; exc = "" when nothing is raised.
Classify(d, hexData) ==
  IF d["msgType"] = "Operation"
  THEN IF hexData \in DOMAIN Operations
       THEN [exc |-> "", linedict |-> Update(d, [OperationCommand |-> Operations[hexData]])]
       ELSE [exc |-> "KeyError", linedict |-> d]
  ELSE IF d["msgType"] = "Error"
  THEN LET n == int(hexData)
       IN IF ~n.ok THEN [exc |-> "ValueError", linedict |-> d]
          ELSE IF n.value \in DOMAIN Errors
          THEN [exc |-> "", linedict |-> Update(d, [ErrorCommand |-> Errors[n.value]])]
          ELSE [exc |-> "KeyError", linedict |-> d]
  ELSE [exc |-> "", linedict |-> d]

\* The try block for a line that holds an 'rcv' token.
DecodeLine(splits, m) ==
  IF Len(splits) < 5 THEN Raise("IndexError", << >>)
  ELSE
    LET date == SliceFrom(splits[1], 1)
        time == SliceTo(splits[2], -1)
        extID == splits[4]
        hexData == splits[5]
        source == SliceFrom(extID, -2)
        dst == Slice(extID, -4, -2)
        fID == Slice(extID, -6, -4)
        machineIDs == machineIDsOf(m)
    IN IF fID \notin DOMAIN functionIDs THEN Raise("KeyError", << >>)
       ELSE
         LET header == [date |-> date, time |-> time, extID |-> extID,
                        hexData |-> hexData, msgType |-> functionIDs[fID]]
         IN IF source \notin DOMAIN machineIDs THEN Raise("KeyError", header)
            ELSE
              LET withSource == Update(header, [source |-> machineIDs[source]])
              IN IF dst \notin DOMAIN machineIDs THEN Raise("KeyError", withSource)
                 ELSE
                   LET withDst == Update(withSource, [dst |-> machineIDs[dst]])
                       cls == Classify(withDst, hexData)
                   IN IF cls.exc # "" THEN Raise(cls.exc, cls.linedict)
                      ELSE
                        LET fly == IF FlyerGate(m, hexData)
                                   THEN FlyerDecode(cls.linedict, hexData)
                                   ELSE [linedict |-> cls.linedict, warns |-> << >>]
                        IN [appended |-> TRUE, linedict |-> fly.linedict,
                            warns |-> fly.warns]

(* ------------------------------ log lines ------------------------------ *)

\* The example frame: function 01, destination 02, source 03, 20 bytes.
\* [2024-01-01 12:00:00] rcv 0x010203 0102030405060708090A0B0C0D0E0F1011121314
LineExample ==
  <<"[","2","0","2","4","-","0","1","-","0","1"," ","1","2",":","0","0",":","0","0",
      "]"," ","r","c","v"," ","0","x","0","1","0","2","0","3"," ","0","1","0","2","0",
      "3","0","4","0","5","0","6","0","7","0","8","0","9","0","A","0","B","0","C","0",
      "D","0","E","0","F","1","0","1","1","1","2","1","3","1","4">>

\* Source left_sensor, destination Right Motor, 22 bytes, 0x3039 = 12345 first.
\* [2024-01-01 12:00:01] rcv 0x010304 3039ffff00fa01f43c4b0200030001022a0001ff02aabb
LineLeftRight ==
  <<"[","2","0","2","4","-","0","1","-","0","1"," ","1","2",":","0","0",":","0","1",
      "]"," ","r","c","v"," ","0","x","0","1","0","3","0","4"," ","3","0","3","9","f",
      "f","f","f","0","0","f","a","0","1","f","4","3","c","4","b","0","2","0","0","0",
      "3","0","0","0","1","0","2","2","a","0","0","0","1","f","f","0","2","a","a","b",
      "b">>

\* Source left_sensor, destination Controller, 20 bytes.
\* [2024-01-01 12:00:02] rcv 0x010204 000100020003000405060007000809000a000b0c
LineLeft ==
  <<"[","2","0","2","4","-","0","1","-","0","1"," ","1","2",":","0","0",":","0","2",
      "]"," ","r","c","v"," ","0","x","0","1","0","2","0","4"," ","0","0","0","1","0",
      "0","0","2","0","0","0","3","0","0","0","4","0","5","0","6","0","0","0","7","0",
      "0","0","8","0","9","0","0","0","a","0","0","0","b","0","c">>

\* Controller to Controller, 5 bytes.
\* [2024-01-01 12:00:03] rcv 0x010202 0102030405
LineShort == <<"[","2","0","2","4","-","0","1","-","0","1"," ","1","2",":","0","0",":","0","3",
      "]"," ","r","c","v"," ","0","x","0","1","0","2","0","2"," ","0","1","0","2","0",
      "3","0","4","0","5">>

\* 40 characters, not hex at the last byte.
\* [2024-01-01 12:00:04] rcv 0x010203 0102030405060708090A0B0C0D0E0F10111213ZZ
LineNonHex ==
  <<"[","2","0","2","4","-","0","1","-","0","1"," ","1","2",":","0","0",":","0","4",
      "]"," ","r","c","v"," ","0","x","0","1","0","2","0","3"," ","0","1","0","2","0",
      "3","0","4","0","5","0","6","0","7","0","8","0","9","0","A","0","B","0","C","0",
      "D","0","E","0","F","1","0","1","1","1","2","1","3","Z","Z">>

\* 41 characters.
\* [2024-01-01 12:00:05] rcv 0x010203 0102030405060708090A0B0C0D0E0F10111213141
LineOdd ==
  <<"[","2","0","2","4","-","0","1","-","0","1"," ","1","2",":","0","0",":","0","5",
      "]"," ","r","c","v"," ","0","x","0","1","0","2","0","3"," ","0","1","0","2","0",
      "3","0","4","0","5","0","6","0","7","0","8","0","9","0","A","0","B","0","C","0",
      "D","0","E","0","F","1","0","1","1","1","2","1","3","1","4","1">>

\* 40 characters of which two are a tab: 19 bytes.
\* [2024-01-01 12:00:06] rcv 0x010203 01\t\t030405060708090A0B0C0D0E0F1011121314
LineTab ==
  <<"[","2","0","2","4","-","0","1","-","0","1"," ","1","2",":","0","0",":","0","6",
      "]"," ","r","c","v"," ","0","x","0","1","0","2","0","3"," ","0","1","\t","\t","0",
      "3","0","4","0","5","0","6","0","7","0","8","0","9","0","A","0","B","0","C","0",
      "D","0","E","0","F","1","0","1","1","1","2","1","3","1","4">>

\* Operation with a payload of the Operation sheet.
\* [2024-01-01 12:00:07] rcv 0x020203 0A
LineOperation == <<"[","2","0","2","4","-","0","1","-","0","1"," ","1","2",":","0","0",":","0","7",
      "]"," ","r","c","v"," ","0","x","0","2","0","2","0","3"," ","0","A">>

\* Operation with a payload that is not in the Operation sheet.
\* [2024-01-01 12:00:08] rcv 0x020203 0C
LineOperationUnknown == <<"[","2","0","2","4","-","0","1","-","0","1"," ","1","2",":","0","0",":","0","8",
      "]"," ","r","c","v"," ","0","x","0","2","0","2","0","3"," ","0","C">>

\* Error 5.
\* [2024-01-01 12:00:09] rcv 0x030203 05
LineError == <<"[","2","0","2","4","-","0","1","-","0","1"," ","1","2",":","0","0",":","0","9",
      "]"," ","r","c","v"," ","0","x","0","3","0","2","0","3"," ","0","5">>

\* Error with a payload that is not a decimal integer.
\* [2024-01-01 12:00:10] rcv 0x030203 0A
LineErrorNotInt == <<"[","2","0","2","4","-","0","1","-","0","1"," ","1","2",":","0","0",":","1","0",
      "]"," ","r","c","v"," ","0","x","0","3","0","2","0","3"," ","0","A">>

\* Error 7, which is not in the Error sheet.
\* [2024-01-01 12:00:11] rcv 0x030203 07
LineErrorUnknown == <<"[","2","0","2","4","-","0","1","-","0","1"," ","1","2",":","0","0",":","1","1",
      "]"," ","r","c","v"," ","0","x","0","3","0","2","0","3"," ","0","7">>

\* Function code 09 is not in the FunctionID sheet.
\* [2024-01-01 12:00:12] rcv 0x090203 0102
LineFunctionUnknown == <<"[","2","0","2","4","-","0","1","-","0","1"," ","1","2",":","0","0",":","1","2",
      "]"," ","r","c","v"," ","0","x","0","9","0","2","0","3"," ","0","1","0","2">>

\* Source code 0F is in no address sheet.
\* [2024-01-01 12:00:13] rcv 0x01020F 0102
LineSourceUnknown == <<"[","2","0","2","4","-","0","1","-","0","1"," ","1","2",":","0","0",":","1","3",
      "]"," ","r","c","v"," ","0","x","0","1","0","2","0","F"," ","0","1","0","2">>

\* Destination code 0E is in no address sheet.
\* [2024-01-01 12:00:14] rcv 0x010E03 0102
LineDstUnknown == <<"[","2","0","2","4","-","0","1","-","0","1"," ","1","2",":","0","0",":","1","4",
      "]"," ","r","c","v"," ","0","x","0","1","0","E","0","3"," ","0","1","0","2">>

\* Four tokens.
\* [2024-01-01 12:00:15] rcv 0x010203
LineFourTokens == <<"[","2","0","2","4","-","0","1","-","0","1"," ","1","2",":","0","0",":","1","5",
      "]"," ","r","c","v"," ","0","x","0","1","0","2","0","3">>

\* A transmit line.
\* [2024-01-01 12:00:16] snd 0x010203 0102030405
LineSnd == <<"[","2","0","2","4","-","0","1","-","0","1"," ","1","2",":","0","0",":","1","6",
      "]"," ","s","n","d"," ","0","x","0","1","0","2","0","3"," ","0","1","0","2","0",
      "3","0","4","0","5">>

LogLines ==
  {LineExample, LineLeftRight, LineLeft, LineShort, LineNonHex, LineOdd,
   LineTab, LineOperation, LineOperationUnknown, LineError, LineErrorNotInt,
   LineErrorUnknown, LineFunctionUnknown, LineSourceUnknown, LineDstUnknown,
   LineFourTokens, LineSnd}

(* ------------------------------ decode loop ---------------------------- *)

\* lines is the part of the log the for loop has gone through.
Init ==
  /\ machine \in {machine_map[t] : t \in DOMAIN machine_map}
  /\ lines = << >>
  /\ allDicts = << >>
  /\ warnings = << >>
  /\ linedict = << >>
  /\ pc = "loop"

\* One iteration of "for line in lines".
LoopBody(line) ==
  /\ pc = "loop"
  /\ Len(lines) < MaxLines
  /\ lines' = Append(lines, line)
  /\ LET splits == split(line)
     IN IF ~InSeq(<<"r","c","v">>, splits)
        THEN UNCHANGED <<allDicts, warnings, linedict>>
        ELSE LET r == DecodeLine(splits, machine)
             IN /\ linedict' = r.linedict
                /\ warnings' = warnings \o r.warns
                /\ allDicts' = IF r.appended THEN Append(allDicts, r.linedict)
                               ELSE allDicts
  /\ UNCHANGED <<machine, pc>>

\* The loop is left: df = pd.DataFrame(allDicts).
EndLoop ==
  /\ pc = "loop"
  /\ pc' = "done"
  /\ UNCHANGED <<machine, lines, allDicts, warnings, linedict>>

Next == (\E line \in LogLines : LoopBody(line)) \/ EndLoop

Spec == Init /\ [][Next]_vars

(* ------------------------------ lift side alone ------------------------ *)

\* Names the derivation is tried on.
LiftNames ==
  {Controller, RightMotor, LeftSensor, <<"C","y","l","i","n","d","e","r">>, <<"F","r","o","n","t"," ","R","o","l","l","e","r">>,
   <<"R","I","G","H","T">>, <<"L","e","f","t"," ","o","f"," ","R","i","g","h","t">>, <<"U","p","r","i","g","h","t">>, <<"L","E","F","T"," ","a","r","m">>, << >>}

\* A dict that holds the source and the dst key or lacks them.
NamedDict(hasSrc, src, hasDst, dst) ==
  Update(IF hasSrc THEN [source |-> src] ELSE << >>,
         IF hasDst THEN [dst |-> dst] ELSE << >>)

InitLift ==
  /\ machine = FLYER
  /\ lines = << >>
  /\ allDicts = << >>
  /\ warnings = << >>
  /\ \E hasSrc \in BOOLEAN, hasDst \in BOOLEAN :
       \E src \in LiftNames, dst \in LiftNames :
         linedict = NamedDict(hasSrc, src, hasDst, dst)
  /\ pc = "lift"

\* The lift side statement on its own.
DeriveLiftSide ==
  /\ pc = "lift"
  /\ linedict' = Update(linedict, [LiftSide |-> LiftSide(linedict)])
  /\ pc' = "lifted"
  /\ UNCHANGED <<machine, lines, allDicts, warnings>>

NextLift == DeriveLiftSide

SpecLift == InitLift /\ [][NextLift]_vars

(* ------------------------------ payload alone -------------------------- *)

ByteSamples == {1, 48, 57, 255}

HexDigits == <<"0","1","2","3","4","5","6","7","8","9","a","b","c","d","e","f">>

\* bytes.hex()
RECURSIVE hex(_)
hex(b) ==
  IF b = << >> THEN << >>
  ELSE <<HexDigits[(b[1] \div 16) + 1], HexDigits[(b[1] % 16) + 1]>> \o hex(Tail(b))

\* Payloads of 20 to 20 + MaxExtra bytes, zero but for one or two bytes.
InitFlyer ==
  /\ machine = FLYER
  /\ lines = << >>
  /\ allDicts = << >>
  /\ warnings = << >>
  /\ \E n \in 20..(20 + MaxExtra) : \E p \in 1..n, q \in 1..n :
       \E v \in ByteSamples, w \in ByteSamples :
         linedict = [hexData |-> hex([i \in 1..n |->
                        IF i = p THEN v ELSE IF i = q THEN w ELSE 0])]
  /\ pc = "flyer"

\* The Flyer payload statement on its own.
FlyerStep ==
  /\ pc = "flyer"
  /\ FlyerGate(machine, linedict["hexData"])
  /\ LET r == FlyerDecode(linedict, linedict["hexData"])
     IN /\ linedict' = r.linedict
        /\ warnings' = warnings \o r.warns
  /\ pc' = "decoded"
  /\ UNCHANGED <<machine, lines, allDicts>>

NextFlyer == FlyerStep

SpecFlyer == InitFlyer /\ [][NextFlyer]_vars

(* ------------------------------ properties ----------------------------- *)

SignalFields ==
  {"targetPosition", "presentPosition", "presentRPM", "appliedDuty",
   "FETtemp", "MOTtemp", "busCurrentADC", "busVoltageADC", "liftDirection",
   "GBPresentPosition", "encPresentPosition", "usingPosition"}

HeaderFields == {"date", "time", "extID", "hexData", "msgType", "source", "dst"}

\* The step is one loop iteration; ThisLine is the line it went through.
IsIteration == Len(lines') = Len(lines) + 1

ThisLine == lines'[Len(lines')]

IsCandidate(line) == \E i \in 1..Len(split(line)) : split(line)[i] = <<"r","c","v">>

IsWellFormed(line) == IsCandidate(line) /\ Len(split(line)) >= 5

\* The step appended exactly one record; NewRecord is that record.
AppendedOne ==
  /\ Len(allDicts') = Len(allDicts) + 1
  /\ SubSeq(allDicts', 1, Len(allDicts)) = allDicts

NewRecord == allDicts'[Len(allDicts')]

FunctionCodeOf(line) == Slice(split(line)[4], -6, -4)

DstCodeOf(line) == Slice(split(line)[4], -4, -2)

SourceCodeOf(line) == SliceFrom(split(line)[4], -2)

PayloadOf(line) == split(line)[5]

\* Function, source and destination code of a well-formed line are keys.
Resolves(line, m) ==
  /\ FunctionCodeOf(line) \in DOMAIN functionIDs
  /\ SourceCodeOf(line) \in DOMAIN machineIDsOf(m)
  /\ DstCodeOf(line) \in DOMAIN machineIDsOf(m)

\* Some code of a well-formed line is not a key of its table.
HasUnknownCode(line, m) ==
  \/ ~Resolves(line, m)
  \/ /\ functionIDs[FunctionCodeOf(line)] = "Operation"
     /\ PayloadOf(line) \notin DOMAIN Operations
  \/ /\ functionIDs[FunctionCodeOf(line)] = "Error"
     /\ int(PayloadOf(line)).ok
     /\ int(PayloadOf(line)).value \notin DOMAIN Errors

\* The payload token gives 20 bytes or more when read as hex.
Decodable(p) == fromhex(p).ok /\ Len(fromhex(p).bytes) >= 20

\* The header-level values a well-formed, resolving line must give.
HasHeaderOf(r, line, m) ==
  LET t == split(line)
  IN /\ HeaderFields \subseteq DOMAIN r
     /\ r["date"] = SubSeq(t[1], 2, Len(t[1]))
     /\ r["time"] = SubSeq(t[2], 1, Len(t[2]) - 1)
     /\ r["extID"] = t[4]
     /\ r["hexData"] = t[5]
     /\ r["msgType"] = functionIDs[FunctionCodeOf(line)]
     /\ r["source"] = machineIDsOf(m)[SourceCodeOf(line)]
     /\ r["dst"] = machineIDsOf(m)[DstCodeOf(line)]

\* C1: a well-formed candidate line with a function, source, destination,
\* Operation or Error code that is not a key of its table still appends one
\* record, with date, time, extID and hexData populated.
C1_UnknownCodeKeepsRecord ==
  [][(IsIteration /\ IsWellFormed(ThisLine) /\ HasUnknownCode(ThisLine, machine))
       => (AppendedOne
           /\ {"date", "time", "extID", "hexData"} \subseteq DOMAIN NewRecord)]_vars

\* C2: when the loop is left, the number of records is the number of
\* candidate lines minus the number of candidate lines with fewer than 5 tokens.
C2_RecordCount ==
  pc = "done" =>
    Len(allDicts) =
      Cardinality({i \in 1..Len(lines) : IsCandidate(lines[i])})
      - Cardinality({i \in 1..Len(lines) :
                       IsCandidate(lines[i]) /\ Len(split(lines[i])) < 5})

\* Every schema lookup of a well-formed line succeeds, so that the line
\* comes to the payload statement.
ReachesPayload(line, m) ==
  /\ Resolves(line, m)
  /\ ~HasUnknownCode(line, m)
  /\ functionIDs[FunctionCodeOf(line)] = "Error" => int(PayloadOf(line)).ok

\* C3: under FLYER, a well-formed line whose identifiers resolve and whose
\* payload is shorter than 40 characters or does not decode to 20 bytes
\* appends exactly one record with the header fields and no signal field,
\* and a warning is recorded for the line.
C3_UndecodablePayloadWarns ==
  [][(/\ IsIteration
      /\ machine = FLYER
      /\ IsWellFormed(ThisLine)
      /\ ReachesPayload(ThisLine, machine)
      /\ (Len(PayloadOf(ThisLine)) < 40 \/ ~Decodable(PayloadOf(ThisLine))))
       => (/\ AppendedOne
           /\ HeaderFields \subseteq DOMAIN NewRecord
           /\ SignalFields \cap DOMAIN NewRecord = {}
           /\ Len(warnings') = Len(warnings) + 1)]_vars

\* C4: a well-formed line whose message type is "Error" and whose payload is
\* not a base-10 integer still appends its record, with the header fields
\* and without an error name.
C4_ErrorPayloadNotIntKeepsRecord ==
  [][(/\ IsIteration
      /\ IsWellFormed(ThisLine)
      /\ Resolves(ThisLine, machine)
      /\ functionIDs[FunctionCodeOf(ThisLine)] = "Error"
      /\ ~int(PayloadOf(ThisLine)).ok)
       => (/\ AppendedOne
           /\ HeaderFields \subseteq DOMAIN NewRecord
           /\ "ErrorCommand" \notin DOMAIN NewRecord)]_vars

\* The lines C5 is about: well-formed, resolving, neither Operation nor Error.
IsPlainLine(line, m) ==
  /\ IsWellFormed(line)
  /\ Resolves(line, m)
  /\ functionIDs[FunctionCodeOf(line)] \notin {"Operation", "Error"}

\* C5 as stated: under every variant and payload length such a line gives
\* exactly one record, and the record has none of the 12 signal fields.
C5_Original_NeverSignals ==
  [][(IsIteration /\ IsPlainLine(ThisLine, machine))
       => (AppendedOne /\ SignalFields \cap DOMAIN NewRecord = {})]_vars

\* C5 amended: such a line gives exactly one record with the header values of
\* the line, equal to every earlier record of the same frame; the record has
\* none of the 12 signal fields unless the variant is FLYER and the payload
\* token has 40 characters or more and decodes to 20 bytes or more, and then
\* it has all 12.
C5_PlainLineOneRecord ==
  [][(IsIteration /\ IsPlainLine(ThisLine, machine))
       => (/\ AppendedOne
           /\ HasHeaderOf(NewRecord, ThisLine, machine)
           /\ \A k \in 1..Len(allDicts) :
                (\A f \in {"date", "time", "extID", "hexData"} :
                   allDicts[k][f] = NewRecord[f])
                => allDicts[k] = NewRecord
           /\ IF /\ machine = FLYER
                 /\ Len(PayloadOf(ThisLine)) >= 40
                 /\ Decodable(PayloadOf(ThisLine))
              THEN SignalFields \subseteq DOMAIN NewRecord
              ELSE SignalFields \cap DOMAIN NewRecord = {})]_vars

\* A 40-character Telemetry payload decoded under CARDING: no signal field.
C5_Witness ==
  /\ machine = CARDING
  /\ \E k \in 1..Len(allDicts) :
       /\ allDicts[k]["msgType"] = "Telemetry"
       /\ Len(allDicts[k]["hexData"]) >= 40
       /\ SignalFields \cap DOMAIN allDicts[k] = {}

\* C6: the signals of a payload of 20 or more bytes b follow the layout
\* table, read big-endian from b[0..19] only; 0x3039 at bytes 0 and 1 gives
\* 123.45.
C6_LayoutTable ==
  pc = "decoded" =>
    LET b == fromhex(linedict["hexData"]).bytes
        B(k) == b[k + 1]
        IsHundredth(x, v) == x.frac100 \in 0..99 /\ 100 * x.int + x.frac100 = v
    IN /\ SignalFields \subseteq DOMAIN linedict
       /\ IsHundredth(linedict["targetPosition"], 256 * B(0) + B(1))
       /\ IsHundredth(linedict["presentPosition"], 256 * B(2) + B(3))
       /\ linedict["presentRPM"] = 256 * B(4) + B(5)
       /\ linedict["appliedDuty"] = 256 * B(6) + B(7)
       /\ linedict["FETtemp"] = B(8)
       /\ linedict["MOTtemp"] = B(9)
       /\ linedict["busCurrentADC"] = 256 * B(10) + B(11)
       /\ linedict["busVoltageADC"] = 256 * B(12) + B(13)
       /\ linedict["liftDirection"] = B(14)
       /\ IsHundredth(linedict["GBPresentPosition"], 256 * B(15) + B(16))
       /\ IsHundredth(linedict["encPresentPosition"], 256 * B(17) + B(18))
       /\ linedict["usingPosition"] = B(19)
       /\ (B(0) = 48 /\ B(1) = 57)
            => linedict["targetPosition"] = [int |-> 123, frac100 |-> 45]

\* 12345 at the target position of a payload of more than 20 bytes whose
\* last byte is not zero.
C6_Witness ==
  /\ pc = "decoded"
  /\ Len(linedict["hexData"]) > 40
  /\ SubSeq(linedict["hexData"], 1, 4) = <<"3","0","3","9">>
  /\ linedict["targetPosition"] = [int |-> 123, frac100 |-> 45]

\* The log of the end-to-end example, decoded with payload decoding active.
IsExampleRun == pc = "done" /\ machine = FLYER /\ lines = <<LineExample>>

ExampleRecordBut(target) ==
  /\ Len(allDicts) = 1
  /\ allDicts[1]["msgType"] = "Telemetry"
  /\ allDicts[1]["source"] = RightMotor
  /\ allDicts[1]["dst"] = Controller
  /\ allDicts[1]["LiftSide"] = "Right Lift"
  /\ allDicts[1]["targetPosition"] = target

\* C7 as stated: the example line gives one record with Telemetry,
\* Right Motor, Controller, Right Lift and targetPosition 2.57.
C7_Original_Target257 ==
  IsExampleRun => ExampleRecordBut([int |-> 2, frac100 |-> 57])

\* C7 amended: the example line gives one record with Telemetry,
\* Right Motor, Controller, Right Lift and targetPosition 2.58.
C7_ExampleRecord ==
  IsExampleRun => ExampleRecordBut([int |-> 2, frac100 |-> 58])

C7_Witness == IsExampleRun /\ Len(allDicts) = 1

\* C8: the tag is "Right Lift" if the lower-cased source or destination
\* holds "right", else "Left Lift" if one holds "left", else "Unknown Lift";
\* a missing name counts as empty, and the tag is one of the three values.
C8_LiftSideRule ==
  pc = "lifted" =>
    LET name(k) == IF k \in DOMAIN linedict THEN lower(linedict[k]) ELSE << >>
        has(w) == Contains(w, name("source")) \/ Contains(w, name("dst"))
        tag == linedict["LiftSide"]
    IN /\ tag \in {"Right Lift", "Left Lift", "Unknown Lift"}
       /\ tag = "Right Lift" <=> has(<<"r","i","g","h","t">>)
       /\ tag = "Left Lift" <=> (~has(<<"r","i","g","h","t">>) /\ has(<<"l","e","f","t">>))
       /\ tag = "Unknown Lift" <=> (~has(<<"r","i","g","h","t">>) /\ ~has(<<"l","e","f","t">>))
       /\ ("source" \notin DOMAIN linedict /\ "dst" \notin DOMAIN linedict)
            => tag = "Unknown Lift"

\* A left source with a right destination.
C8_Witness ==
  /\ pc = "lifted"
  /\ "source" \in DOMAIN linedict /\ linedict["source"] = LeftSensor
  /\ "dst" \in DOMAIN linedict /\ linedict["dst"] = RightMotor
  /\ linedict["LiftSide"] = "Right Lift"

\* C9: every record whose identifiers resolved carries LiftSide, under
\* every variant and with or without decoded signals.
C9_EveryRecordHasLiftSide ==
  \A k \in 1..Len(allDicts) :
    {"msgType", "source", "dst"} \subseteq DOMAIN allDicts[k]
      => "LiftSide" \in DOMAIN allDicts[k]

\* C10: every record carries all 12 signal fields or none; signal fields
\* occur only under FLYER with a payload token of 40 characters or more; a
\* record with LiftSide carries all 12 signal fields.
C10_SignalsAllOrNone ==
  \A k \in 1..Len(allDicts) :
    LET present == SignalFields \cap DOMAIN allDicts[k]
    IN /\ present = {} \/ present = SignalFields
       /\ present # {} => (machine = FLYER /\ Len(allDicts[k]["hexData"]) >= 40)
       /\ "LiftSide" \in DOMAIN allDicts[k] => present = SignalFields

\* A record with the signals and a record of a 40-character payload whose
\* decoding failed.
C10_Witness ==
  /\ \E k \in 1..Len(allDicts) : SignalFields \subseteq DOMAIN allDicts[k]
  /\ \E k \in 1..Len(allDicts) :
       /\ Len(allDicts[k]["hexData"]) >= 40
       /\ SignalFields \cap DOMAIN allDicts[k] = {}
  /\ Len(warnings) > 0

====
